---- MODULE Spec2Model ----
(***************************************************************************)
(* A model of the farba software rasterizer: the Canvas pixel buffer       *)
(* (src/src/canvas.rs), the clipping helpers normalize_rect and            *)
(* normalize_triangle (src/src/normal.rs) and the u32 colour               *)
(* (src/src/color.rs).                                                     *)
(*                                                                         *)
(* A behaviour is one run of a driver shaped like the example programs     *)
(* (src/examples/*.rs): Canvas::new, an optional fill, then one call of    *)
(* a drawing operation or of a clipping helper.  The arguments and the     *)
(* pixel buffer before the last call are kept in `call` and `old_pixels`   *)
(* so that the effect of the call can be stated as a state predicate.      *)
(*                                                                         *)
(* Coordinates range over a small window around the canvas, far inside     *)
(* i32, so none of the i32 additions and multiplications of the drawing    *)
(* code overflows there; the usize index arithmetic of get_index does wrap *)
(* for negative coordinates and is modelled with its wrap-around.  The     *)
(* corner addition of normalize_rect is modelled in i32, and rect is also  *)
(* called with a corner at the ends of i32.                                *)
(*                                                                         *)
(* A frame drawn with a depth buffer (src/examples/3d_cube.rs,             *)
(* render_frame) allocates the buffer and submits two triangles to         *)
(* triangle_with_depth_buffer; `submitted` keeps them in order.            *)
(***************************************************************************)
EXTENDS Integers, FiniteSets, Sequences, TLC

\* Largest canvas width and height explored.
MaxW == 2
MaxH == 2

\* Packed u32 colours handed to the drawing calls (0 is the colour of a new canvas).
Colors == {1, 2}

\* Coordinates: from one pixel left of / above the canvas to one past the largest canvas.
XCoords == (0 - 1)..MaxW
YCoords == (0 - 1)..MaxH

\* Signed extents of rectangles, long enough to cross the whole canvas.
WExtents == (0 - (MaxW + 1))..(MaxW + 1)
HExtents == (0 - (MaxH + 1))..(MaxH + 1)

\* Channel values of RGBA colours: the ends of u8, both sides of the top bit, and
\* values with mixed bits.
Channels == {0, 1, 90, 127, 128, 255}

\* Radii of circles (negative radii are accepted by the i32 parameter).
Radii == (0 - (MaxW + 1))..(MaxW + 1)

VARIABLES
    width,       \* Canvas.width
    height,      \* Canvas.height
    pixels,      \* Canvas.pixels: index -> packed colour, indices 0..width*height-1
    pc,          \* position of the driver: "new", "filled", "called"
    call,        \* the last call: its name, arguments and outcome
    old_pixels,  \* the pixel buffer as it was before the last call
    depth_buffer,      \* the caller's Vec<f32> handed to triangle_with_depth_buffer
    old_depth_buffer,  \* the depth buffer as it was before the last call
    submitted          \* the depth-buffered triangles submitted so far, in order

\* The variables of a frame drawn with a depth buffer; the other drivers leave them alone.
depth_vars == <<depth_buffer, old_depth_buffer, submitted>>

vars == <<width, height, pixels, pc, call, old_pixels, depth_buffer, old_depth_buffer, submitted>>

(***************************************************************************)
(* std helpers                                                             *)
(***************************************************************************)
Signum(v) == IF v > 0 THEN 1 ELSE IF v < 0 THEN 0 - 1 ELSE 0

Abs(v) == IF v < 0 THEN 0 - v ELSE v

\* i32::MAX and i32::MIN
I32Max == 2147483647

I32Min == 0 - I32Max - 1

\* Coordinates at the two ends of i32.
FarCoords == {I32Min, I32Min + 1, I32Max - 1, I32Max}

\* a + b leaves i32 (b is an offset of small magnitude).
AddOverflowsI32(a, b) ==
    \/ b > 0 /\ a > I32Max - b
    \/ b < 0 /\ a < I32Min - b

\* a + b in i32 without overflow checks: the sum modulo 2^32.
WrappingAddI32(a, b) ==
    IF b > 0 /\ a > I32Max - b THEN I32Min + ((b - 1) - (I32Max - a))
    ELSE IF b < 0 /\ a < I32Min - b THEN I32Max - ((0 - (b + 1)) - (a - I32Min))
    ELSE a + b

\* impl Color for u32: pack returns the word itself.
Pack(color) == color

(***************************************************************************)
(* Colours (src/src/color.rs).  Where the bit operations matter a u32 is   *)
(* its four bytes <<byte 0, byte 1, byte 2, byte 3>>, least significant    *)
(* first; a shift by 8 * n moves the bytes by n places.                    *)
(***************************************************************************)
RECURSIVE BitAnd(_, _)
BitAnd(a, b) ==
    IF a = 0 \/ b = 0 THEN 0
    ELSE (a % 2) * (b % 2) + 2 * BitAnd(a \div 2, b \div 2)

RECURSIVE BitOr(_, _)
BitOr(a, b) ==
    IF a = 0 THEN b
    ELSE IF b = 0 THEN a
    ELSE (IF a % 2 = 1 \/ b % 2 = 1 THEN 1 ELSE 0) + 2 * BitOr(a \div 2, b \div 2)

\* `v as u32` of a u8
U32FromU8(v) == <<v, 0, 0, 0>>

\* `w as u8`: the low byte
U8FromU32(w) == w[1]

U32And(p, q) == [i \in 1..4 |-> BitAnd(p[i], q[i])]

U32Or(p, q) == [i \in 1..4 |-> BitOr(p[i], q[i])]

\* p << (8 * n): bytes shifted out at the top are lost.
U32Shl(p, n) == [i \in 1..4 |-> IF i - n >= 1 THEN p[i - n] ELSE 0]

\* p >> (8 * n)
U32Shr(p, n) == [i \in 1..4 |-> IF i + n <= 4 THEN p[i + n] ELSE 0]

\* RGBAColor::from_rgba
RGBAColor(r, g, b, a) == [red |-> r, green |-> g, blue |-> b, alpha |-> a]

\* The packing that puts blue in byte 0 and red in byte 2.
U32FromRGBAColor_BlueFirst(color) ==
    U32Or(U32Or(U32Or(
        U32Shl(U32And(U32FromU8(color.blue), <<255, 0, 0, 0>>), 0),
        U32Shl(U32And(U32FromU8(color.green), <<255, 0, 0, 0>>), 1)),
        U32Shl(U32And(U32FromU8(color.red), <<255, 0, 0, 0>>), 2)),
        U32Shl(U32And(U32FromU8(color.alpha), <<255, 0, 0, 0>>), 3))

\* impl From<&RGBAColor> for u32, which is <RGBAColor as Color>::pack
U32FromRGBAColor(color) ==
    U32Or(U32Or(U32Or(
        U32Shl(U32And(U32FromU8(color.red), <<255, 0, 0, 0>>), 0),
        U32Shl(U32And(U32FromU8(color.green), <<255, 0, 0, 0>>), 1)),
        U32Shl(U32And(U32FromU8(color.blue), <<255, 0, 0, 0>>), 2)),
        U32Shl(U32And(U32FromU8(color.alpha), <<255, 0, 0, 0>>), 3))

\* impl Color for u32: red, green, blue, alpha
Red(w) == U8FromU32(U32Shr(U32And(w, <<255, 0, 0, 0>>), 0))

Green(w) == U8FromU32(U32Shr(U32And(w, <<0, 255, 0, 0>>), 1))

Blue(w) == U8FromU32(U32Shr(U32And(w, <<0, 0, 255, 0>>), 2))

Alpha(w) == U8FromU32(U32Shr(U32And(w, <<0, 0, 0, 255>>), 3))

\* impl From<u32> for RGBAColor
RGBAColorFromU32(w) == RGBAColor(Red(w), Green(w), Blue(w), Alpha(w))

(***************************************************************************)
(* Canvas: construction and pixel access                                   *)
(***************************************************************************)
\* vec![0u32; width * height]
NewPixels(w, h) == [i \in 0..(w * h - 1) |-> 0]

\* Canvas::in_bounds, as written.
InBounds(w, h, x, y) == x < 0 \/ x >= w \/ y < 0 \/ y >= h

\* Canvas::get_index: self.width * y as usize + x as usize, in 64-bit usize.
\* A negative i32 casts to 2^64 + v.  `checks` is the build's overflow-checks
\* setting: with it an overflowing * or + panics, without it the result wraps.
\* The wrapped result is returned as the integer width*y + x; a negative value
\* stands for the usize 2^64 + (width*y + x), which is beyond every buffer.
GetIndex(checks, w, x, y) ==
    LET p == w * y
        mulOverflow == y < 0 /\ w >= 2
        addOverflow == \/ p < 0 /\ x < 0
                       \/ p < 0 /\ x >= 0 /\ p + x >= 0
                       \/ p >= 0 /\ x < 0 /\ p + x >= 0
    IN  [panic |-> checks /\ (mulOverflow \/ addOverflow), index |-> p + x]

\* *self.get_pixel_mut(x, y) = pixel_color: the slice index panics when the
\* index is not below pixels.len().
WritePixel(checks, w, pix, x, y, pixel_color) ==
    LET gi == GetIndex(checks, w, x, y)
    IN  IF gi.panic \/ gi.index \notin DOMAIN pix
        THEN [pixels |-> pix, panicked |-> TRUE]
        ELSE [pixels |-> [pix EXCEPT ![gi.index] = pixel_color], panicked |-> FALSE]

\* Canvas::set_pixel
SetPixelOp(checks, w, h, pix, x, y, color) ==
    LET pixel_color == Pack(color)
    IN  IF InBounds(w, h, x, y)
        THEN WritePixel(checks, w, pix, x, y, pixel_color)
        ELSE [pixels |-> pix, panicked |-> FALSE]

\* Canvas::set_pixel_unchecked
SetPixelUncheckedOp(checks, w, pix, x, y, color) ==
    LET pixel_color == Pack(color)
    IN  WritePixel(checks, w, pix, x, y, pixel_color)

\* The fill that stops one row short: for y in 0..self.height - 1.
FillOp_SkipsLastRow(w, h, pix, color) ==
    LET pixel_color == Pack(color)
        written == {GetIndex(TRUE, w, x, y).index : x \in 0..(w - 1), y \in 0..(h - 2)}
    IN  [pixels |-> [i \in DOMAIN pix |-> IF i \in written THEN pixel_color ELSE pix[i]],
         panicked |-> \E i \in written : i \notin DOMAIN pix]

\* Canvas::fill: every (x, y) with 0 <= x < width, 0 <= y < height is written.
FillOp(w, h, pix, color) ==
    LET pixel_color == Pack(color)
        written == {GetIndex(TRUE, w, x, y).index : x \in 0..(w - 1), y \in 0..(h - 1)}
    IN  [pixels |-> [i \in DOMAIN pix |-> IF i \in written THEN pixel_color ELSE pix[i]],
         panicked |-> \E i \in written : i \notin DOMAIN pix]

(***************************************************************************)
(* Clipper (src/src/normal.rs)                                             *)
(***************************************************************************)
\* Option::None
None == [some |-> FALSE]

\* The opposite corner taken as v + extent, one past the last covered pixel.
OppositeCorner_PastEnd(v, extent) == v + extent

\* The opposite corner of the 1-point + signed extent form:
\* nr.orig_x1 + width.signum() * (width.abs() - 1)
\* The i32 addition wraps in a build without overflow checks.
OppositeCorner(v, extent) == WrappingAddI32(v, Signum(extent) * (Abs(extent) - 1))

\* The same addition panics in a build with overflow checks when the corner
\* leaves i32.
OppositeCornerOverflows(v, extent) ==
    AddOverflowsI32(v, Signum(extent) * (Abs(extent) - 1))

\* The cull test with > for >= on the far edges.
RectCulled_Strict(orig_x1, orig_x2, orig_y1, orig_y2, canvas_width, canvas_height) ==
    \/ orig_x1 > canvas_width
    \/ orig_x2 < 0
    \/ orig_y1 > canvas_height
    \/ orig_y2 < 0

\* The cull test of normalize_rect on the ordered corners.
RectCulled(orig_x1, orig_x2, orig_y1, orig_y2, canvas_width, canvas_height) ==
    \/ orig_x1 >= canvas_width
    \/ orig_x2 < 0
    \/ orig_y1 >= canvas_height
    \/ orig_y2 < 0

\* if nr.x1 < 0 { nr.x1 = 0 }
ClampLow(v) == IF v < 0 THEN 0 ELSE v

\* The high clamp landing on the limit itself.
ClampHigh_OffByOne(v, limit) == IF v >= limit THEN limit ELSE v

\* if nr.x2 >= canvas_width { nr.x2 = canvas_width - 1 }
ClampHigh(v, limit) == IF v >= limit THEN limit - 1 ELSE v

\* normalize_rect panics on computing orig_x2 or orig_y2 (builds with overflow checks).
NormalizeRectOverflows(x, y, w, h) ==
    /\ w # 0
    /\ h # 0
    /\ (OppositeCornerOverflows(x, w) \/ OppositeCornerOverflows(y, h))

\* normalize_rect, statement by statement.
NormalizeRect(x, y, w, h, canvas_width, canvas_height) ==
    IF w = 0 \/ h = 0 THEN None
    ELSE
    LET ox1 == x
        oy1 == y
        ox2 == OppositeCorner(ox1, w)
        oy2 == OppositeCorner(oy1, h)
        \* swap!(orig_x1, orig_x2) when orig_x1 > orig_x2, likewise for y
        orig_x1 == IF ox1 > ox2 THEN ox2 ELSE ox1
        orig_x2 == IF ox1 > ox2 THEN ox1 ELSE ox2
        orig_y1 == IF oy1 > oy2 THEN oy2 ELSE oy1
        orig_y2 == IF oy1 > oy2 THEN oy1 ELSE oy2
    IN  IF RectCulled(orig_x1, orig_x2, orig_y1, orig_y2, canvas_width, canvas_height)
        THEN None
        ELSE [some |-> TRUE,
              x1 |-> ClampLow(orig_x1),
              x2 |-> ClampHigh(orig_x2, canvas_width),
              y1 |-> ClampLow(orig_y1),
              y2 |-> ClampHigh(orig_y2, canvas_height),
              orig_x1 |-> orig_x1, orig_y1 |-> orig_y1,
              orig_x2 |-> orig_x2, orig_y2 |-> orig_y2]

\* nt.left_x = x1; if nt.left_x > x2 { nt.left_x = x2 }; if nt.left_x > x3 { nt.left_x = x3 }
TriLow(a, b, c) ==
    LET l0 == a
        l1 == IF l0 > b THEN b ELSE l0
    IN  IF l1 > c THEN c ELSE l1

\* The upper bound that forgets the third vertex.
TriHigh_TwoVertices(a, b, c) == IF a < b THEN b ELSE a

\* nt.right_x = x1; if nt.right_x < x2 { nt.right_x = x2 }; if nt.right_x < x3 { nt.right_x = x3 }
TriHigh(a, b, c) ==
    LET r0 == a
        r1 == IF r0 < b THEN b ELSE r0
    IN  IF r1 < c THEN c ELSE r1

\* normalize_triangle, statement by statement: the x bounds are normalised and
\* clamped (with their early returns) before the y bounds.  The usize casts of
\* left_x, right_x, top_y, bottom_y happen only on values already known to be >= 0
\* (left_x and top_y after their clamp, right_x and bottom_y after their < 0 return).
NormalizeTriangle(w, h, x1, y1, x2, y2, x3, y3) ==
    LET lx == TriLow(x1, x2, x3)
        rx == TriHigh(x1, x2, x3)
        left_x == IF lx < 0 THEN 0 ELSE lx
        ty == TriLow(y1, y2, y3)
        by == TriHigh(y1, y2, y3)
        top_y == IF ty < 0 THEN 0 ELSE ty
    IN  IF left_x >= w THEN None
        ELSE IF rx < 0 THEN None
        ELSE IF top_y >= h THEN None
        ELSE IF by < 0 THEN None
        ELSE [some |-> TRUE,
              left_x |-> left_x,
              right_x |-> IF rx >= w THEN w - 1 ELSE rx,
              top_y |-> top_y,
              bottom_y |-> IF by >= h THEN h - 1 ELSE by]

(***************************************************************************)
(* Canvas: drawing operations                                              *)
(***************************************************************************)
\* lo..hi, the exclusive range
RangeExclusive(lo, hi) == lo..(hi - 1)

\* lo..=hi
RangeInclusive(lo, hi) == lo..hi

\* The pixels visited by `for x in lo_x..=hi_x { for y in lo_y..=hi_y { .. } }`.
LoopPoints(lo_x, hi_x, lo_y, hi_y) ==
    RangeInclusive(lo_x, hi_x) \X RangeInclusive(lo_y, hi_y)

\* The writes `*self.get_pixel_mut(x, y) = pixel_color` of the nested loops of
\* circle, rect and triangle; `hits` are the visited pixels that pass the loop
\* body's test.  Pixels are visited column by column (x outer, y inner); the
\* first write whose index panics ends the call and leaves the earlier writes
\* in the buffer.
Rasterize(checks, w, pix, lo_x, lo_y, hi_y, hits, pixel_color) ==
    LET rows == hi_y - lo_y + 1
        Ord(p) == (p[1] - lo_x) * rows + (p[2] - lo_y)
        Fails(p) == LET gi == GetIndex(checks, w, p[1], p[2])
                    IN  gi.panic \/ gi.index \notin DOMAIN pix
        bad == {Ord(p) : p \in {q \in hits : Fails(q)}}
        stop == IF bad = {} THEN 0 - 1 ELSE CHOOSE m \in bad : \A n \in bad : m <= n
        done == IF bad = {} THEN hits ELSE {p \in hits : Ord(p) < stop}
        written == {GetIndex(checks, w, p[1], p[2]).index : p \in done}
    IN  [pixels |-> [i \in DOMAIN pix |-> IF i \in written THEN pixel_color ELSE pix[i]],
         panicked |-> bad # {}]

\* Canvas::rect
RectOp(checks, w, h, pix, x, y, rw, rh, color) ==
    LET pixel_color == Pack(color)
        nr == NormalizeRect(x, y, rw, rh, w, h)
    IN  IF checks /\ NormalizeRectOverflows(x, y, rw, rh)
        THEN [pixels |-> pix, panicked |-> TRUE]
        ELSE IF ~nr.some
        THEN [pixels |-> pix, panicked |-> FALSE]
        ELSE Rasterize(checks, w, pix, nr.x1, nr.y1, nr.y2,
                       LoopPoints(nr.x1, nr.x2, nr.y1, nr.y2), pixel_color)

\* The circle test with <= for <.
InCircle_Closed(center_x, center_y, radius, x, y) ==
    LET dx == center_x - x
        dy == center_y - y
    IN  dx * dx + dy * dy <= radius * radius

\* The test of Canvas::circle on one pixel: dx * dx + dy * dy < radius * radius
InCircle(center_x, center_y, radius, x, y) ==
    LET dx == center_x - x
        dy == center_y - y
    IN  dx * dx + dy * dy < radius * radius

\* Canvas::circle
CircleOp(checks, w, h, pix, center_x, center_y, radius, color) ==
    LET pixel_color == Pack(color)
        nr == NormalizeRect(center_x - radius, center_y - radius,
                            radius * 2, radius * 2, w, h)
    IN  IF ~nr.some
        THEN [pixels |-> pix, panicked |-> FALSE]
        ELSE Rasterize(checks, w, pix, nr.x1, nr.y1, nr.y2,
                       {p \in LoopPoints(nr.x1, nr.x2, nr.y1, nr.y2) :
                            InCircle(center_x, center_y, radius, p[1], p[2])},
                       pixel_color)

\* The edge test with > 0 for >= 0.
PointInBounds_Strict(x1, y1, x2, y2, x3, y3, x, y) ==
    LET z1 == (x2 - x1) * (y - y1) - (y2 - y1) * (x - x1)
        z2 == (x3 - x2) * (y - y2) - (y3 - y2) * (x - x2)
        z3 == (x1 - x3) * (y - y3) - (y1 - y3) * (x - x3)
    IN  Signum(z1) > 0 /\ Signum(z2) > 0 /\ Signum(z3) > 0

\* The edge test that accepts either winding: all >= 0 or all <= 0.
PointInBounds_EitherWinding(x1, y1, x2, y2, x3, y3, x, y) ==
    LET z1 == (x2 - x1) * (y - y1) - (y2 - y1) * (x - x1)
        z2 == (x3 - x2) * (y - y2) - (y3 - y2) * (x - x2)
        z3 == (x1 - x3) * (y - y3) - (y1 - y3) * (x - x3)
    IN  \/ Signum(z1) >= 0 /\ Signum(z2) >= 0 /\ Signum(z3) >= 0
        \/ Signum(z1) <= 0 /\ Signum(z2) <= 0 /\ Signum(z3) <= 0

\* The closure point_in_bounds of Canvas::triangle.
PointInBounds(x1, y1, x2, y2, x3, y3, x, y) ==
    LET z1 == (x2 - x1) * (y - y1) - (y2 - y1) * (x - x1)
        z2 == (x3 - x2) * (y - y2) - (y3 - y2) * (x - x2)
        z3 == (x1 - x3) * (y - y3) - (y1 - y3) * (x - x3)
    IN  Signum(z1) >= 0 /\ Signum(z2) >= 0 /\ Signum(z3) >= 0

\* Canvas::triangle
TriangleOp(checks, w, h, pix, x1, y1, x2, y2, x3, y3, color) ==
    LET pixel_color == Pack(color)
        nt == NormalizeTriangle(w, h, x1, y1, x2, y2, x3, y3)
    IN  IF ~nt.some
        THEN [pixels |-> pix, panicked |-> FALSE]
        ELSE Rasterize(checks, w, pix, nt.left_x, nt.top_y, nt.bottom_y,
                       {p \in LoopPoints(nt.left_x, nt.right_x, nt.top_y, nt.bottom_y) :
                            PointInBounds(x1, y1, x2, y2, x3, y3, p[1], p[2])},
                       pixel_color)

(***************************************************************************)
(* Vec3 (src/src/math.rs).  Components are integer-valued f32 of small     *)
(* magnitude, on which the f32 +, - and * are exact.                       *)
(***************************************************************************)
\* Vec3::new
Vec3(x, y, z) == [x |-> x, y |-> y, z |-> z]

\* impl Sub<Vec3> for Vec3
Vec3Sub(a, b) == Vec3(a.x - b.x, a.y - b.y, a.z - b.z)

\* Vec3::dot
Dot(a, b) == a.x * b.x + a.y * b.y + a.z * b.z

\* Vec3::cross
Cross(a, b) ==
    Vec3(a.y * b.z - a.z * b.y,
         a.z * b.x - a.x * b.z,
         a.x * b.y - a.y * b.x)

\* Vec3::magnitude_squared, as written.
MagnitudeSquared(v) == v.x * v.x + v.y + v.y * v.z * v.z

\* Mat3::new: | a, b, c |  | d, e, f |  | g, h, i |
Mat3(a, b, c, d, e, f, g, h, i) ==
    [a |-> a, b |-> b, c |-> c, d |-> d, e |-> e, f |-> f, g |-> g, h |-> h, i |-> i]

\* impl Mul<Vec3> for Mat3
Mat3MulVec3(m, rhs) ==
    Vec3(m.a * rhs.x + m.b * rhs.y + m.c * rhs.z,
         m.d * rhs.x + m.e * rhs.y + m.f * rhs.z,
         m.g * rhs.x + m.h * rhs.y + m.i * rhs.z)

\* The product taken entry by entry.
Mat3Mul_EntryWise(m, rhs) ==
    Mat3(m.a * rhs.a, m.b * rhs.b, m.c * rhs.c,
         m.d * rhs.d, m.e * rhs.e, m.f * rhs.f,
         m.g * rhs.g, m.h * rhs.h, m.i * rhs.i)

\* impl Mul<Mat3> for Mat3
Mat3Mul(m, rhs) ==
    Mat3(m.a * rhs.a + m.b * rhs.d + m.c * rhs.g, m.a * rhs.b + m.b * rhs.e + m.c * rhs.h, m.a * rhs.c + m.b * rhs.f + m.c * rhs.i,
         m.d * rhs.a + m.e * rhs.d + m.f * rhs.g, m.d * rhs.b + m.e * rhs.e + m.f * rhs.h, m.d * rhs.c + m.e * rhs.f + m.f * rhs.i,
         m.g * rhs.a + m.h * rhs.d + m.i * rhs.g, m.g * rhs.b + m.h * rhs.e + m.i * rhs.h, m.g * rhs.c + m.h * rhs.f + m.i * rhs.i)

\* The sign of the zero that self.x * other.y - self.y * other.x yields when it
\* is zero: a difference of equal non-zero products is +0.0, and a difference of
\* two zero products is -0.0 only as (-0.0) - (+0.0).  A zero product is -0.0
\* when its other factor is negative (the components are differences of
\* vertices, so a zero component is +0.0).
CrossZIsNegZero(a, b) ==
    LET NegZeroProduct(p, q) == (p = 0 /\ q < 0) \/ (q = 0 /\ p < 0)
    IN  /\ a.x * b.y = 0
        /\ a.y * b.x = 0
        /\ NegZeroProduct(a.x, b.y)
        /\ ~NegZeroProduct(a.y, b.x)

(***************************************************************************)
(* f32 depth values.  A value is a pair <<num, den>>: den > 0 is the       *)
(* finite number num/den in lowest terms, <<1, 0>> is +infinity,           *)
(* <<-1, 0>> is -infinity and <<0, 0>> is NaN.                             *)
(***************************************************************************)
F32Inf == <<1, 0>>

F32NegInf == <<0 - 1, 0>>

F32NaN == <<0, 0>>

RECURSIVE Gcd(_, _)
Gcd(a, b) == IF b = 0 THEN a ELSE Gcd(b, a % b)

\* The finite value num/den (den # 0) in lowest terms with a positive denominator.
F32Ratio(num, den) ==
    LET g == Gcd(Abs(num), Abs(den))
    IN  <<Signum(den) * (num \div g), Abs(den) \div g>>

\* The comparison with <= for <.
F32Less_OrEqual(a, b) ==
    /\ a # F32NaN
    /\ b # F32NaN
    /\ IF a[2] = 0 \/ b[2] = 0
       THEN a = b \/ a = F32NegInf \/ b = F32Inf
       ELSE a[1] * b[2] <= b[1] * a[2]

\* a < b on f32: false whenever either side is NaN.
F32Less(a, b) ==
    /\ a # F32NaN
    /\ b # F32NaN
    /\ IF a[2] = 0 \/ b[2] = 0
       THEN a # b /\ (a = F32NegInf \/ b = F32Inf)
       ELSE a[1] * b[2] < b[1] * a[2]

\* (1.0 / t) * (k - r * x as f32 - s * y as f32).  1.0 / t is +-infinity for
\* t = +-0.0, and infinity times zero is NaN.  For the t that occur (0 and
\* powers of two up to sign) 1.0 / t and its product are exact.
PlaneDepth(t_neg_zero, t, k, r, s, x, y) ==
    LET n == k - r * x - s * y
    IN  IF t # 0 THEN F32Ratio(n, t)
        ELSE IF n = 0 THEN F32NaN
        ELSE IF (n < 0) = t_neg_zero THEN F32Inf
        ELSE F32NegInf

\* vec![f32::INFINITY; len]
NewDepthBuffer(len) == [i \in 0..(len - 1) |-> F32Inf]

(***************************************************************************)
(* Canvas::triangle_with_depth_buffer                                      *)
(***************************************************************************)
\* The depth entry that is left as it was although the pixel is nearer.
NearerDepth_NotStored(should_draw, z, entry) == entry

\* The depth entry that is put back to +infinity when the pixel is not nearer.
NearerDepth_Reset(should_draw, z, entry) == IF should_draw THEN z ELSE F32Inf

\* if should_draw { depth_buffer[index] = z; }
NearerDepth(should_draw, z, entry) == IF should_draw THEN z ELSE entry

\* Canvas::triangle_with_depth_buffer.  The vertices are integer-valued, so
\* the casts `v.x as i32` return the component.  Pixels are visited column by
\* column; a visited pixel that passes point_in_bounds evaluates
\* pixel_is_nearer, whose read depth_buffer[index] panics when the index is not
\* below depth_buffer.len() and leaves the earlier writes in both buffers.
\* Past the length check pixels.len() = depth_buffer.len(), so the pixel write
\* that follows a successful read uses a valid index.
TriangleWithDepthBufferOp(checks, w, h, pix, depth, v1, v2, v3, color) ==
    LET pixel_color == Pack(color)
        x1 == v1.x
        y1 == v1.y
        x2 == v2.x
        y2 == v2.y
        x3 == v3.x
        y3 == v3.y
        nt == NormalizeTriangle(w, h, x1, y1, x2, y2, x3, y3)
        plane_v1 == Vec3Sub(v1, v2)
        plane_v2 == Vec3Sub(v1, v3)
        plane_normal == Cross(plane_v1, plane_v2)
        k == Dot(v1, plane_normal)
        r == plane_normal.x
        s == plane_normal.y
        t == plane_normal.z
        t_neg_zero == CrossZIsNegZero(plane_v1, plane_v2)
        Z(p) == PlaneDepth(t_neg_zero, t, k, r, s, p[1], p[2])
        Index(p) == GetIndex(checks, w, p[1], p[2])
        rows == nt.bottom_y - nt.top_y + 1
        Ord(p) == (p[1] - nt.left_x) * rows + (p[2] - nt.top_y)
        tested == {p \in LoopPoints(nt.left_x, nt.right_x, nt.top_y, nt.bottom_y) :
                       PointInBounds(x1, y1, x2, y2, x3, y3, p[1], p[2])}
        Fails(p) == Index(p).panic \/ Index(p).index \notin DOMAIN depth
        bad == {Ord(p) : p \in {q \in tested : Fails(q)}}
        stop == IF bad = {} THEN 0 - 1 ELSE CHOOSE m \in bad : \A n \in bad : m <= n
        done == IF bad = {} THEN tested ELSE {p \in tested : Ord(p) < stop}
        nearer == {p \in done : F32Less(Z(p), depth[Index(p).index])}
        DonePoint(i) == CHOOSE p \in done : Index(p).index = i
    IN  IF ~nt.some
        THEN [pixels |-> pix, depth_buffer |-> depth, panicked |-> FALSE]
        ELSE IF Cardinality(DOMAIN depth) # w * h
        THEN [pixels |-> pix, depth_buffer |-> depth, panicked |-> TRUE]
        ELSE [pixels |-> [i \in DOMAIN pix |->
                            IF \E p \in nearer : Index(p).index = i
                            THEN pixel_color ELSE pix[i]],
              depth_buffer |-> [i \in DOMAIN depth |->
                            IF \E p \in done : Index(p).index = i
                            THEN LET p == DonePoint(i)
                                 IN  NearerDepth(p \in nearer, Z(p), depth[i])
                            ELSE depth[i]],
              panicked |-> bad # {}]

(***************************************************************************)
(* The driver.  A call that reaches get_index is taken under both builds   *)
(* (overflow checks on and off); where the two builds agree the call has   *)
(* one outcome.                                                            *)
(***************************************************************************)
Init ==
    /\ width \in 0..MaxW
    /\ height \in 0..MaxH
    /\ pixels = NewPixels(width, height)
    /\ pc = "new"
    /\ call = [op |-> "new"]
    /\ old_pixels = pixels
    /\ depth_buffer = << >>
    /\ old_depth_buffer = << >>
    /\ submitted = << >>

Fill ==
    /\ pc = "new"
    /\ \E color \in Colors :
         LET r == FillOp(width, height, pixels, color)
         IN  /\ pixels' = r.pixels
             /\ call' = [op |-> "fill", color |-> color, panicked |-> r.panicked]
    /\ old_pixels' = pixels
    /\ pc' = "filled"
    /\ UNCHANGED <<depth_vars, width, height>>

\* canvas.fill at the start of a later frame, over what was drawn before.
Refill ==
    /\ pc = "called"
    /\ \E color \in Colors :
         LET r == FillOp(width, height, pixels, color)
         IN  /\ pixels' = r.pixels
             /\ call' = [op |-> "fill", color |-> color, panicked |-> r.panicked]
    /\ old_pixels' = pixels
    /\ pc' = "refilled"
    /\ UNCHANGED <<depth_vars, width, height>>

SetPixel ==
    /\ pc \in {"new", "filled"}
    /\ \E x \in XCoords, y \in YCoords, color \in Colors :
         \E r \in {SetPixelOp(checks, width, height, pixels, x, y, color) :
                     checks \in BOOLEAN} :
             /\ pixels' = r.pixels
             /\ call' = [op |-> "set_pixel", x |-> x, y |-> y, color |-> color,
                         panicked |-> r.panicked]
    /\ old_pixels' = pixels
    /\ pc' = "called"
    /\ UNCHANGED <<depth_vars, width, height>>

SetPixelUnchecked ==
    /\ pc \in {"new", "filled"}
    /\ \E x \in XCoords, y \in YCoords, color \in Colors :
         \E r \in {SetPixelUncheckedOp(checks, width, pixels, x, y, color) :
                     checks \in BOOLEAN} :
             /\ pixels' = r.pixels
             /\ call' = [op |-> "set_pixel_unchecked", x |-> x, y |-> y, color |-> color,
                         panicked |-> r.panicked]
    /\ old_pixels' = pixels
    /\ pc' = "called"
    /\ UNCHANGED <<depth_vars, width, height>>

\* RGBAColor::from_rgba(r, g, b, a).pack()
ColorPack ==
    /\ pc = "new"
    /\ \E r \in Channels, g \in Channels, b \in Channels, a \in Channels :
         call' = [op |-> "pack", color |-> RGBAColor(r, g, b, a),
                  word |-> U32FromRGBAColor(RGBAColor(r, g, b, a))]
    /\ pc' = "packed"
    /\ UNCHANGED <<depth_vars, width, height, pixels, old_pixels>>

\* RGBAColor::from(word) and the four accessors of the packed word.
ColorUnpack ==
    /\ pc = "packed"
    /\ call' = [op |-> "unpack", color |-> call.color, word |-> call.word,
                unpacked |-> RGBAColorFromU32(call.word),
                red |-> Red(call.word), green |-> Green(call.word),
                blue |-> Blue(call.word), alpha |-> Alpha(call.word)]
    /\ pc' = "unpacked"
    /\ UNCHANGED <<depth_vars, width, height, pixels, old_pixels>>

\* A direct call of normalize_rect with the canvas's dimensions, as in its doc-test.
NormalizeRectCall ==
    /\ pc \in {"new", "filled"}
    /\ \E x \in XCoords, y \in YCoords, w \in WExtents, h \in HExtents :
         call' = [op |-> "normalize_rect", x |-> x, y |-> y, w |-> w, h |-> h,
                  ret |-> NormalizeRect(x, y, w, h, width, height)]
    /\ old_pixels' = pixels
    /\ pc' = "called"
    /\ UNCHANGED <<depth_vars, width, height, pixels>>

\* A direct call of normalize_triangle with the canvas's dimensions.
NormalizeTriangleCall ==
    /\ pc \in {"new", "filled"}
    /\ \E x1 \in XCoords, y1 \in YCoords, x2 \in XCoords, y2 \in YCoords,
          x3 \in XCoords, y3 \in YCoords :
         call' = [op |-> "normalize_triangle",
                  x1 |-> x1, y1 |-> y1, x2 |-> x2, y2 |-> y2, x3 |-> x3, y3 |-> y3,
                  ret |-> NormalizeTriangle(width, height, x1, y1, x2, y2, x3, y3)]
    /\ old_pixels' = pixels
    /\ pc' = "called"
    /\ UNCHANGED <<depth_vars, width, height, pixels>>

Rect ==
    /\ pc \in {"new", "filled"}
    /\ \E x \in XCoords, y \in YCoords, w \in WExtents, h \in HExtents,
          color \in Colors :
         \E r \in {RectOp(checks, width, height, pixels, x, y, w, h, color) :
                     checks \in BOOLEAN} :
             /\ pixels' = r.pixels
             /\ call' = [op |-> "rect", x |-> x, y |-> y, w |-> w, h |-> h,
                         color |-> color, panicked |-> r.panicked]
    /\ old_pixels' = pixels
    /\ pc' = "called"
    /\ UNCHANGED <<depth_vars, width, height>>

\* Canvas::rect with a corner at the ends of i32.
RectFar ==
    /\ pc \in {"new", "filled"}
    /\ \E x \in FarCoords, y \in YCoords \cup FarCoords, w \in WExtents, h \in HExtents,
          color \in Colors :
         \E r \in {RectOp(checks, width, height, pixels, x, y, w, h, color) :
                     checks \in BOOLEAN} :
             /\ pixels' = r.pixels
             /\ call' = [op |-> "rect", x |-> x, y |-> y, w |-> w, h |-> h,
                         color |-> color, panicked |-> r.panicked]
    /\ old_pixels' = pixels
    /\ pc' = "called"
    /\ UNCHANGED <<depth_vars, width, height>>

Circle ==
    /\ pc \in {"new", "filled"}
    /\ \E cx \in XCoords, cy \in YCoords, radius \in Radii,
          color \in Colors :
         \E r \in {CircleOp(checks, width, height, pixels, cx, cy, radius, color) :
                     checks \in BOOLEAN} :
             /\ pixels' = r.pixels
             /\ call' = [op |-> "circle", cx |-> cx, cy |-> cy, radius |-> radius,
                         color |-> color, panicked |-> r.panicked]
    /\ old_pixels' = pixels
    /\ pc' = "called"
    /\ UNCHANGED <<depth_vars, width, height>>

Triangle ==
    /\ pc \in {"new", "filled"}
    /\ \E x1 \in XCoords, y1 \in YCoords, x2 \in XCoords, y2 \in YCoords,
          x3 \in XCoords, y3 \in YCoords, color \in Colors :
         \E r \in {TriangleOp(checks, width, height, pixels, x1, y1, x2, y2, x3, y3, color) :
                     checks \in BOOLEAN} :
             /\ pixels' = r.pixels
             /\ call' = [op |-> "triangle",
                         x1 |-> x1, y1 |-> y1, x2 |-> x2, y2 |-> y2, x3 |-> x3, y3 |-> y3,
                         color |-> color, panicked |-> r.panicked]
    /\ old_pixels' = pixels
    /\ pc' = "called"
    /\ UNCHANGED <<depth_vars, width, height>>

\* Rows of the matrices: those of the quarter turn about z (rotate_z of 90
\* degrees is | 0, -1, 0 |  | 1, 0, 0 |  | 0, 0, 1 |) and a row without zeros.
MatrixRows == {<<0, 0 - 1, 0>>, <<1, 0, 0>>, <<0, 0, 1>>, <<2, 1, 0 - 1>>}

Matrices ==
    {Mat3(r1[1], r1[2], r1[3], r2[1], r2[2], r2[3], r3[1], r3[2], r3[3]) :
        r1 \in MatrixRows, r2 \in MatrixRows, r3 \in MatrixRows}

\* Vectors multiplied by the matrices: the unit vectors and one without zeros.
UnitAndMixedVectors == {Vec3(1, 0, 0), Vec3(0, 1, 0), Vec3(0, 0, 1), Vec3(1, 0 - 2, 3)}

\* Vectors whose magnitude is taken.
SmallVectors == {Vec3(x, y, z) : x \in (0 - 2)..2, y \in (0 - 2)..2, z \in (0 - 2)..2}

\* let m = a * b; m * v, and a * (b * v)
Mat3Compose ==
    /\ pc = "new"
    /\ \E a \in Matrices, b \in Matrices, v \in UnitAndMixedVectors :
         call' = [op |-> "mat3_mul", a |-> a, b |-> b, v |-> v,
                  ab |-> Mat3Mul(a, b),
                  ab_v |-> Mat3MulVec3(Mat3Mul(a, b), v),
                  b_v |-> Mat3MulVec3(b, v),
                  a_bv |-> Mat3MulVec3(a, Mat3MulVec3(b, v))]
    /\ pc' = "called"
    /\ UNCHANGED <<depth_vars, width, height, pixels, old_pixels>>

\* v.magnitude_squared()
Vec3MagnitudeSquared ==
    /\ pc = "new"
    /\ \E v \in SmallVectors :
         call' = [op |-> "magnitude_squared", v |-> v, ret |-> MagnitudeSquared(v)]
    /\ pc' = "called"
    /\ UNCHANGED <<depth_vars, width, height, pixels, old_pixels>>

\* Vertices of the depth-buffered triangles: the first vertex on the main
\* diagonal, the other two on the corners beside it, at depth 0 or 1.  The
\* triples hold both windings, degenerate triangles and, on the smaller
\* canvases, triangles that lie off the canvas; their planes are flat or
\* sloped and cross one another.
DepthZs == {0, 1}

FirstVertices == {Vec3(c, c, z) : c \in {0, 2}, z \in DepthZs}

OtherVertices == {Vec3(2 - c, c, z) : c \in {0, 2}, z \in DepthZs}

\* The lengths of the depth buffer a caller may have allocated: the right one
\* and its two neighbours.
DepthLengths(w, h) == {n \in {w * h - 1, w * h, w * h + 1} : n >= 0}

\* let mut depth_buffer: Vec<f32> = vec![f32::INFINITY; ..], once per frame.
ResetDepthBuffer ==
    /\ pc = "new"
    /\ \E len \in DepthLengths(width, height) :
         /\ depth_buffer' = NewDepthBuffer(len)
         /\ call' = [op |-> "reset_depth_buffer", len |-> len]
    /\ old_depth_buffer' = depth_buffer
    /\ old_pixels' = pixels
    /\ submitted' = << >>
    /\ pc' = "reset"
    /\ UNCHANGED <<width, height, pixels>>

\* One pass of `for triangle in projected_triangles { canvas.triangle_with_depth_buffer(..) }`;
\* a frame submits two triangles.  A panic ends the program.
TriangleWithDepthBuffer ==
    /\ pc \in {"reset", "depth1"}
    /\ \E v1 \in FirstVertices, v2 \in OtherVertices, v3 \in OtherVertices, color \in Colors :
         \E r \in {TriangleWithDepthBufferOp(checks, width, height, pixels, depth_buffer,
                                             v1, v2, v3, color) : checks \in BOOLEAN} :
             LET this == [op |-> "triangle_with_depth_buffer",
                          v1 |-> v1, v2 |-> v2, v3 |-> v3,
                          color |-> color, panicked |-> r.panicked]
             IN  /\ pixels' = r.pixels
                 /\ depth_buffer' = r.depth_buffer
                 /\ call' = this
                 /\ submitted' = Append(submitted, this)
                 /\ pc' = IF r.panicked THEN "aborted"
                          ELSE IF pc = "reset" THEN "depth1" ELSE "depth2"
    /\ old_pixels' = pixels
    /\ old_depth_buffer' = depth_buffer
    /\ UNCHANGED <<width, height>>

NextPixel == Fill \/ SetPixel

SpecPixel == Init /\ [][NextPixel]_vars

NextUnchecked == Fill \/ SetPixelUnchecked

SpecUnchecked == Init /\ [][NextUnchecked]_vars

NextClip == Fill \/ NormalizeRectCall \/ NormalizeTriangleCall

SpecClip == Init /\ [][NextClip]_vars

NextRect == Fill \/ Rect

SpecRect == Init /\ [][NextRect]_vars

NextFar == Fill \/ RectFar

SpecFar == Init /\ [][NextFar]_vars

NextFill == Fill \/ Rect \/ Refill

SpecFill == Init /\ [][NextFill]_vars

NextColor == ColorPack \/ ColorUnpack

SpecColor == Init /\ [][NextColor]_vars

NextMath == Mat3Compose \/ Vec3MagnitudeSquared

SpecMath == Init /\ [][NextMath]_vars

NextCircle == Fill \/ Circle

SpecCircle == Init /\ [][NextCircle]_vars

NextTriangle == Fill \/ Triangle

SpecTriangle == Init /\ [][NextTriangle]_vars

NextDepth == ResetDepthBuffer \/ TriangleWithDepthBuffer

SpecDepth == Init /\ [][NextDepth]_vars

Next ==
    \/ Fill
    \/ Refill
    \/ SetPixel
    \/ SetPixelUnchecked
    \/ NormalizeRectCall
    \/ NormalizeTriangleCall
    \/ Rect
    \/ RectFar
    \/ Circle
    \/ Triangle
    \/ ResetDepthBuffer
    \/ TriangleWithDepthBuffer
    \/ ColorPack
    \/ ColorUnpack
    \/ Mat3Compose
    \/ Vec3MagnitudeSquared

Spec == Init /\ [][Next]_vars

(***************************************************************************)
(* Vocabulary of the properties                                            *)
(***************************************************************************)
\* The pixel coordinates of the canvas and the buffer index of a coordinate.
CanvasPoints == (0..(width - 1)) \X (0..(height - 1))

Idx(p) == width * p[2] + p[1]

\* The inclusive interval covered by a signed extent: v is the low end when the
\* extent is positive and the high end when it is negative.
MirrorLow(v, extent) == IF extent > 0 THEN v ELSE v + extent + 1

MirrorHigh(v, extent) == IF extent > 0 THEN v + extent - 1 ELSE v

InMirroredBox(p, x, y, w, h) ==
    /\ w # 0 /\ h # 0
    /\ MirrorLow(x, w) <= p[1] /\ p[1] <= MirrorHigh(x, w)
    /\ MirrorLow(y, h) <= p[2] /\ p[2] <= MirrorHigh(y, h)

MaxOf(a, b) == IF a >= b THEN a ELSE b

MinOf(a, b) == IF a <= b THEN a ELSE b

(***************************************************************************)
(* C1: set_pixel(x, y, color) writes the packed colour to pixel (x, y)     *)
(* when 0 <= x < width and 0 <= y < height, and otherwise changes no       *)
(* pixel and does not fail.                                                *)
(***************************************************************************)
C1_SetPixelContract ==
    call.op = "set_pixel" =>
        /\ ~call.panicked
        /\ pixels = IF <<call.x, call.y>> \in CanvasPoints
                    THEN [old_pixels EXCEPT ![Idx(<<call.x, call.y>>)] = call.color]
                    ELSE old_pixels

(***************************************************************************)
(* C2: on a canvas with canvas_width > 0 and canvas_height > 0, whenever   *)
(* normalize_rect returns a box it satisfies 0 <= x1 <= x2 < canvas_width  *)
(* and 0 <= y1 <= y2 < canvas_height.                                      *)
(***************************************************************************)
C2_RectBoxInsideCanvas ==
    (call.op = "normalize_rect" /\ width > 0 /\ height > 0 /\ call.ret.some) =>
        /\ 0 <= call.ret.x1 /\ call.ret.x1 <= call.ret.x2 /\ call.ret.x2 < width
        /\ 0 <= call.ret.y1 /\ call.ret.y1 <= call.ret.y2 /\ call.ret.y2 < height

\* A box that sticks out of the canvas on the left and on the right was returned.
C2_Witness ==
    /\ call.op = "normalize_rect" /\ width > 0 /\ height > 0 /\ call.ret.some
    /\ call.ret.orig_x1 < 0 /\ call.ret.orig_x2 >= width
    /\ call.ret.orig_y2 >= height

(***************************************************************************)
(* C3: normalize_rect returns no result exactly when width is 0, or height *)
(* is 0, or the mirrored box has no point in                               *)
(* [0,canvas_width) x [0,canvas_height); in every other case it returns a  *)
(* box.  As stated, for every canvas size:                                 *)
(***************************************************************************)
C3_RectNoneExactly ==
    call.op = "normalize_rect" =>
        (~call.ret.some <=>
            \/ call.w = 0
            \/ call.h = 0
            \/ ~\E p \in CanvasPoints : InMirroredBox(p, call.x, call.y, call.w, call.h))

\* C3 as amended: the same equivalence on a canvas with canvas_width > 0 and
\* canvas_height > 0.  (On a canvas with a zero dimension a box that straddles
\* coordinate 0 on that axis is returned, with an empty range such as 0..=-1.)
C3_RectNoneExactlyOnCanvas ==
    (call.op = "normalize_rect" /\ width > 0 /\ height > 0) =>
        (~call.ret.some <=>
            \/ call.w = 0
            \/ call.h = 0
            \/ ~\E p \in CanvasPoints : InMirroredBox(p, call.x, call.y, call.w, call.h))

\* A rectangle of non-zero size that starts just past the right edge: no result.
C3_Witness ==
    /\ call.op = "normalize_rect" /\ width > 0 /\ height > 0
    /\ call.w > 0 /\ call.h # 0 /\ call.x = width
    /\ 0 <= call.y /\ call.y < height
    /\ ~call.ret.some

(***************************************************************************)
(* C4: when normalize_rect returns a box, (orig_x1, orig_x2) are x and     *)
(* x + sign(width)*(|width|-1) in ascending order (likewise y), and the    *)
(* clamped box is x1 = max(orig_x1, 0), x2 = min(orig_x2, canvas_width-1), *)
(* y1 = max(orig_y1, 0), y2 = min(orig_y2, canvas_height-1); e.g.          *)
(* (-10,-10,30,40) on 400x400 gives x 0..19, y 0..29.                      *)
(***************************************************************************)
C4_RectCornersAndClamp ==
    /\ (call.op = "normalize_rect" /\ call.ret.some) =>
        LET xa == call.x
            xb == call.x + Signum(call.w) * (Abs(call.w) - 1)
            ya == call.y
            yb == call.y + Signum(call.h) * (Abs(call.h) - 1)
        IN  /\ call.ret.orig_x1 = MinOf(xa, xb) /\ call.ret.orig_x2 = MaxOf(xa, xb)
            /\ call.ret.orig_y1 = MinOf(ya, yb) /\ call.ret.orig_y2 = MaxOf(ya, yb)
            /\ call.ret.x1 = MaxOf(call.ret.orig_x1, 0)
            /\ call.ret.x2 = MinOf(call.ret.orig_x2, width - 1)
            /\ call.ret.y1 = MaxOf(call.ret.orig_y1, 0)
            /\ call.ret.y2 = MinOf(call.ret.orig_y2, height - 1)
    /\ LET nr == NormalizeRect(0 - 10, 0 - 10, 30, 40, 400, 400)
       IN  nr.some /\ nr.x1 = 0 /\ nr.x2 = 19 /\ nr.y1 = 0 /\ nr.y2 = 29

\* A mirrored rectangle (negative width) was returned, clipped at the top.
C4_Witness ==
    /\ call.op = "normalize_rect" /\ call.ret.some
    /\ call.w < 0 - 1 /\ call.ret.orig_x2 = call.x /\ call.ret.orig_x1 < call.x
    /\ call.ret.orig_y1 < 0 /\ call.ret.y1 = 0

(***************************************************************************)
(* C5: normalize_triangle returns no result exactly when the vertices'     *)
(* axis-aligned bounding box does not intersect [0,width) x [0,height);    *)
(* when it returns a box, that box lies inside the canvas and contains     *)
(* every integer point of the bounding box intersected with the canvas.    *)
(***************************************************************************)
\* p is in the axis-aligned bounding box of the three vertices of the call.
InVertexBox(p) ==
    LET xs == {call.x1, call.x2, call.x3}
        ys == {call.y1, call.y2, call.y3}
    IN  /\ \E a \in xs : a <= p[1]
        /\ \E a \in xs : p[1] <= a
        /\ \E b \in ys : b <= p[2]
        /\ \E b \in ys : p[2] <= b

C5_TriangleBox ==
    call.op = "normalize_triangle" =>
        LET visible == {p \in CanvasPoints : InVertexBox(p)}
            nt == call.ret
        IN  /\ ~nt.some <=> visible = {}
            /\ nt.some =>
                /\ 0 <= nt.left_x /\ nt.left_x <= nt.right_x /\ nt.right_x < width
                /\ 0 <= nt.top_y /\ nt.top_y <= nt.bottom_y /\ nt.bottom_y < height
                /\ \A p \in visible :
                     /\ nt.left_x <= p[1] /\ p[1] <= nt.right_x
                     /\ nt.top_y <= p[2] /\ p[2] <= nt.bottom_y

\* A triangle whose third vertex alone reaches into the canvas, clipped on the left.
C5_Witness ==
    /\ call.op = "normalize_triangle" /\ call.ret.some
    /\ call.x1 < 0 /\ call.x2 < 0 /\ call.x3 > 0 /\ call.x3 < width
    /\ call.y1 < 0 /\ call.y2 < 0 /\ call.y3 > 0 /\ call.y3 < height
    /\ call.ret.left_x = 0 /\ call.ret.right_x = call.x3

(***************************************************************************)
(* C6: rect(x, y, width, height, color) sets to color exactly the canvas   *)
(* pixels lying in the mirrored inclusive box and leaves every other pixel *)
(* unchanged; a rectangle fully inside the canvas changes exactly          *)
(* |width|*|height| pixels.                                                *)
(***************************************************************************)
C6_RectFrame ==
    call.op = "rect" =>
        /\ ~call.panicked
        /\ DOMAIN pixels = DOMAIN old_pixels
        /\ \A p \in CanvasPoints :
             pixels[Idx(p)] = IF InMirroredBox(p, call.x, call.y, call.w, call.h)
                              THEN call.color
                              ELSE old_pixels[Idx(p)]
        /\ ( /\ call.w # 0 /\ call.h # 0
             /\ 0 <= MirrorLow(call.x, call.w) /\ MirrorHigh(call.x, call.w) < width
             /\ 0 <= MirrorLow(call.y, call.h) /\ MirrorHigh(call.y, call.h) < height
             /\ \A i \in DOMAIN old_pixels : old_pixels[i] # call.color )
           => Cardinality({i \in DOMAIN pixels : pixels[i] # old_pixels[i]})
                = Abs(call.w) * Abs(call.h)

\* A mirrored rectangle, partly off the canvas, drawn over a filled canvas:
\* some pixels took the colour and some kept the fill colour.
C6_Witness ==
    /\ call.op = "rect" /\ call.w < 0 /\ call.h > 1
    /\ MirrorLow(call.x, call.w) < 0
    /\ \E p \in CanvasPoints : pixels[Idx(p)] = call.color /\ old_pixels[Idx(p)] # call.color
    /\ \E p \in CanvasPoints : pixels[Idx(p)] # call.color /\ pixels[Idx(p)] # 0

(***************************************************************************)
(* C7: circle(cx, cy, radius, color) sets to color exactly the canvas      *)
(* pixels with (cx-x)^2 + (cy-y)^2 < radius^2 and leaves every other pixel *)
(* unchanged: the clipped bounding box misses no such pixel.               *)
(***************************************************************************)
C7_CircleFrame ==
    call.op = "circle" =>
        /\ ~call.panicked
        /\ DOMAIN pixels = DOMAIN old_pixels
        /\ \A p \in CanvasPoints :
             pixels[Idx(p)] =
                IF (call.cx - p[1]) * (call.cx - p[1]) + (call.cy - p[2]) * (call.cy - p[2])
                      < call.radius * call.radius
                THEN call.color
                ELSE old_pixels[Idx(p)]

\* A circle clipped by the canvas edge: a pixel inside it took the colour and a
\* pixel exactly on the boundary circle kept its old colour.
C7_Witness ==
    /\ call.op = "circle" /\ call.radius > 1 /\ call.cx - call.radius < 0
    /\ \E p \in CanvasPoints : pixels[Idx(p)] = call.color /\ old_pixels[Idx(p)] # call.color
    /\ \E p \in CanvasPoints :
         /\ (call.cx - p[1]) * (call.cx - p[1]) + (call.cy - p[2]) * (call.cy - p[2])
               = call.radius * call.radius
         /\ pixels[Idx(p)] # call.color

(***************************************************************************)
(* C8: triangle(x1,y1,x2,y2,x3,y3,color) sets to color exactly the canvas  *)
(* pixels p for which edge(v1,v2,p), edge(v2,v3,p), edge(v3,v1,p) are all  *)
(* >= 0, with edge(a,b,p) = (b.x-a.x)(p.y-a.y) - (b.y-a.y)(p.x-a.x), and   *)
(* leaves all other pixels unchanged.                                      *)
(***************************************************************************)
Edge(ax, ay, bx, by, px, py) == (bx - ax) * (py - ay) - (by - ay) * (px - ax)

AllEdgesNonNegative(p) ==
    /\ Edge(call.x1, call.y1, call.x2, call.y2, p[1], p[2]) >= 0
    /\ Edge(call.x2, call.y2, call.x3, call.y3, p[1], p[2]) >= 0
    /\ Edge(call.x3, call.y3, call.x1, call.y1, p[1], p[2]) >= 0

\* C8 as stated.
C8_TriangleExactlyEdgeTest ==
    call.op = "triangle" =>
        /\ ~call.panicked
        /\ \A p \in CanvasPoints :
             pixels[Idx(p)] = IF AllEdgesNonNegative(p)
                              THEN call.color
                              ELSE old_pixels[Idx(p)]

\* C8 as amended: exactly the canvas pixels inside the vertices' axis-aligned
\* bounding box that pass the edge test are set.
C8_TriangleEdgeTestInVertexBox ==
    call.op = "triangle" =>
        /\ ~call.panicked
        /\ DOMAIN pixels = DOMAIN old_pixels
        /\ \A p \in CanvasPoints :
             pixels[Idx(p)] = IF InVertexBox(p) /\ AllEdgesNonNegative(p)
                              THEN call.color
                              ELSE old_pixels[Idx(p)]

\* A triangle of non-zero area in the accepted winding: a pixel on one of its
\* edges took the colour and a pixel inside its bounding box, failing the test,
\* kept its old colour.
C8_Witness ==
    /\ call.op = "triangle"
    /\ Edge(call.x1, call.y1, call.x2, call.y2, call.x3, call.y3) > 0
    /\ \E p \in CanvasPoints :
         /\ AllEdgesNonNegative(p)
         /\ Edge(call.x1, call.y1, call.x2, call.y2, p[1], p[2]) = 0
         /\ p \notin {<<call.x1, call.y1>>, <<call.x2, call.y2>>}
         /\ pixels[Idx(p)] = call.color /\ old_pixels[Idx(p)] # call.color
    /\ \E p \in CanvasPoints :
         InVertexBox(p) /\ ~AllEdgesNonNegative(p) /\ pixels[Idx(p)] # call.color

(***************************************************************************)
(* C9: the vertices of Canvas::triangle may be supplied in any order: for  *)
(* every permutation of the same three vertices the call colours the same  *)
(* set of pixels.                                                          *)
(***************************************************************************)
C9_TriangleAnyVertexOrder ==
    call.op = "triangle" =>
        LET v == <<(<<call.x1, call.y1>>), (<<call.x2, call.y2>>), (<<call.x3, call.y3>>)>>
        IN  \A i \in 1..3, j \in 1..3, k \in 1..3 :
              {i, j, k} = {1, 2, 3} =>
                 TriangleOp(TRUE, width, height, old_pixels,
                            v[i][1], v[i][2], v[j][1], v[j][2], v[k][1], v[k][2],
                            call.color).pixels = pixels

TriCovers(tri, p) ==
    LET xs == {tri.v1.x, tri.v2.x, tri.v3.x}
        ys == {tri.v1.y, tri.v2.y, tri.v3.y}
    IN  /\ \E a \in xs : a <= p[1]
        /\ \E a \in xs : p[1] <= a
        /\ \E b \in ys : b <= p[2]
        /\ \E b \in ys : p[2] <= b
        /\ Edge(tri.v1.x, tri.v1.y, tri.v2.x, tri.v2.y, p[1], p[2]) >= 0
        /\ Edge(tri.v2.x, tri.v2.y, tri.v3.x, tri.v3.y, p[1], p[2]) >= 0
        /\ Edge(tri.v3.x, tri.v3.y, tri.v1.x, tri.v1.y, p[1], p[2]) >= 0

PlaneNormal(tri) == Cross(Vec3Sub(tri.v1, tri.v2), Vec3Sub(tri.v1, tri.v3))

\* The interpolated depth as the fraction <<numerator, denominator>>, the
\* denominator made positive; <<0, 0>> when N.z = 0.
InterpolatedZ(tri, p) ==
    LET N == PlaneNormal(tri)
        num == Dot(tri.v1, N) - N.x * p[1] - N.y * p[2]
    IN  IF N.z > 0 THEN <<num, N.z>>
        ELSE IF N.z < 0 THEN <<0 - num, 0 - N.z>>
        ELSE <<0, 0>>

\* a < b and a = b on such fractions.
DepthBelow(a, b) == a[1] * b[2] < b[1] * a[2]

SameDepth(a, b) == IF a[2] = 0 \/ b[2] = 0 THEN a = b ELSE a[1] * b[2] = b[1] * a[2]

\* Both triangles of the frame were drawn against a buffer of the right length.
FrameDrawn ==
    /\ call.op = "triangle_with_depth_buffer"
    /\ Cardinality(DOMAIN depth_buffer) = width * height
    /\ \A i \in DOMAIN submitted : ~submitted[i].panicked

\* i is the triangle of `among` that the claim lets win pixel p: it is strictly
\* nearer than every earlier one and no later one is strictly nearer.
WinsPixel(i, among, p) ==
    \A j \in among :
        /\ j < i => DepthBelow(InterpolatedZ(submitted[i], p), InterpolatedZ(submitted[j], p))
        /\ j > i => ~DepthBelow(InterpolatedZ(submitted[j], p), InterpolatedZ(submitted[i], p))

\* Pixel p and its depth entry are those of the winner among `among`, or
\* untouched when `among` is empty.
ShowsNearest(among, p) ==
    IF among = {}
    THEN pixels[Idx(p)] = 0 /\ depth_buffer[Idx(p)] = F32Inf
    ELSE \E i \in among :
            /\ WinsPixel(i, among, p)
            /\ pixels[Idx(p)] = submitted[i].color
            /\ SameDepth(depth_buffer[Idx(p)], InterpolatedZ(submitted[i], p))

SameTriangleAgain ==
    /\ call.op = "triangle_with_depth_buffer"
    /\ Len(submitted) = 2
    /\ submitted[2] = submitted[1]

C12_RedrawChangesNothing ==
    SameTriangleAgain =>
        /\ ~call.panicked
        /\ pixels = old_pixels
        /\ depth_buffer = old_depth_buffer

\* The triangle drawn twice covers a pixel that its first drawing coloured and
\* gave a finite depth, and another pixel of the canvas that it does not cover.
C12_Witness ==
    /\ SameTriangleAgain
    /\ FrameDrawn
    /\ \E p \in CanvasPoints :
         /\ TriCovers(call, p)
         /\ pixels[Idx(p)] = call.color
         /\ depth_buffer[Idx(p)][2] # 0
    /\ \E p \in CanvasPoints : ~TriCovers(call, p)

(***************************************************************************)
(* C13: a call of triangle_with_depth_buffer with a depth buffer whose     *)
(* length differs from width * height is a fatal error for every choice    *)
(* of vertices, triangles lying entirely off the canvas included, and the  *)
(* failing call changes no pixel and no depth entry.                       *)
(***************************************************************************)
C13_WrongLengthIsFatal ==
    (/\ call.op = "triangle_with_depth_buffer"
     /\ Cardinality(DOMAIN old_depth_buffer) # width * height)
    => /\ call.panicked
       /\ pixels = old_pixels
       /\ depth_buffer = old_depth_buffer

(***************************************************************************)
(* C14: set_pixel_unchecked(x, y, color) with an (x, y) that is not a      *)
(* canvas coordinate (x < 0, x >= width, y < 0 or y >= height) panics and  *)
(* modifies no pixel; in particular it never writes a different pixel.     *)
(***************************************************************************)
C14_UncheckedPanicsOffCanvas ==
    (/\ call.op = "set_pixel_unchecked"
     /\ (call.x < 0 \/ call.x >= width \/ call.y < 0 \/ call.y >= height))
    => /\ call.panicked
       /\ pixels = old_pixels

(***************************************************************************)
(* C15: for any arguments and any canvas size, a zero-width or zero-height *)
(* canvas included, rect, circle and triangle never fail and never index   *)
(* outside the pixel buffer; a zero-size or fully off-canvas primitive     *)
(* leaves every pixel unchanged.                                           *)
(***************************************************************************)
\* Coordinate c lies in the interval that the signed extent spans from v.
ExtentCovers(c, v, extent) ==
    IF extent > 0 THEN v <= c /\ c - (extent - 1) <= v
    ELSE IF extent < 0 THEN c <= v /\ v <= c - (extent + 1)
    ELSE FALSE

\* The primitive of the last call has no pixel on the canvas: the rectangle,
\* the square around the circle, the bounding box of the triangle.
OffCanvas ==
    CASE call.op = "rect" ->
            ~\E p \in CanvasPoints :
                ExtentCovers(p[1], call.x, call.w) /\ ExtentCovers(p[2], call.y, call.h)
      [] call.op = "circle" ->
            \/ call.radius = 0
            \/ ~\E p \in CanvasPoints :
                  /\ Abs(p[1] - call.cx) <= Abs(call.radius)
                  /\ Abs(p[2] - call.cy) <= Abs(call.radius)
      [] call.op = "triangle" -> ~\E p \in CanvasPoints : InVertexBox(p)

C15_DrawingNeverFails ==
    call.op \in {"rect", "circle", "triangle"} =>
        /\ ~call.panicked
        /\ DOMAIN pixels = DOMAIN old_pixels
        /\ OffCanvas => pixels = old_pixels

(***************************************************************************)
(* C16: after fill(C) on a canvas of any size every pixel reads pack(C),   *)
(* whatever the buffer held before, and the buffer still has               *)
(* width * height entries.                                                 *)
(***************************************************************************)
C16_FillSetsEveryPixel ==
    call.op = "fill" =>
        /\ ~call.panicked
        /\ DOMAIN pixels = 0..(width * height - 1)
        /\ \A p \in CanvasPoints : pixels[Idx(p)] = Pack(call.color)
        /\ \A i \in DOMAIN pixels : pixels[i] = Pack(call.color)

\* A fill over a buffer that held two different colours, one of them in the
\* last row and neither the colour of the fill.
C16_Witness ==
    /\ call.op = "fill"
    /\ pc = "refilled"
    /\ height >= 2
    /\ \E p \in CanvasPoints, q \in CanvasPoints :
         /\ q[2] = height - 1
         /\ old_pixels[Idx(p)] # old_pixels[Idx(q)]
         /\ old_pixels[Idx(p)] # Pack(call.color)
         /\ old_pixels[Idx(q)] # Pack(call.color)

(***************************************************************************)
(* C17: packing (r, g, b, a) into a 32-bit colour places r in byte 0, g in *)
(* byte 1, b in byte 2 and a in byte 3, and unpacking (red(), green(),     *)
(* blue(), alpha() and From<u32>) returns the original four values for     *)
(* all r, g, b, a in 0..255.                                               *)
(***************************************************************************)
C17_PackRoundTrip ==
    call.op = "unpack" =>
        /\ call.word = <<call.color.red, call.color.green, call.color.blue, call.color.alpha>>
        /\ call.red = call.color.red
        /\ call.green = call.color.green
        /\ call.blue = call.color.blue
        /\ call.alpha = call.color.alpha
        /\ call.unpacked = call.color

\* A colour of four different channel values, with the top bit set in alpha.
C17_Witness ==
    /\ call.op = "unpack"
    /\ Cardinality({call.color.red, call.color.green, call.color.blue, call.color.alpha}) = 4
    /\ call.color.alpha = 255
    /\ call.color.red = 128

(***************************************************************************)
(* C18: Mat3 multiplication is the composition of the linear maps: for     *)
(* matrices A, B and a vector v with integer-valued entries,               *)
(* (A * B) * v = A * (B * v).                                              *)
(***************************************************************************)
C18_Mat3MulComposes ==
    call.op = "mat3_mul" => call.ab_v = call.a_bv

\* Two matrices that do not commute, applied to a vector that tells the two
\* orders apart.
C18_Witness ==
    /\ call.op = "mat3_mul"
    /\ call.ab_v # Mat3MulVec3(call.b, Mat3MulVec3(call.a, call.v))
    /\ call.ab_v # call.v
    /\ call.b_v # call.v

(***************************************************************************)
(* C19: Vec3::magnitude_squared(v) is x*x + y*y + z*z, the dot product of  *)
(* v with itself.                                                          *)
(***************************************************************************)
C19_MagnitudeSquaredIsDot ==
    call.op = "magnitude_squared" =>
        /\ call.ret = call.v.x * call.v.x + call.v.y * call.v.y + call.v.z * call.v.z
        /\ call.ret = Dot(call.v, call.v)

(***************************************************************************)
(* C20: across any sequence of triangle_with_depth_buffer calls, a call    *)
(* writes a pixel's colour in exactly the cases where it strictly lowers   *)
(* that pixel's depth entry; no depth entry ever increases and the         *)
(* function never resets an entry; pixels outside the clipped bounding     *)
(* box or failing the edge test keep both their pixel and their depth      *)
(* entry.                                                                  *)
(***************************************************************************)
\* The last call strictly lowered depth entry i.
DepthLowered(i) == DepthBelow(depth_buffer[i], old_depth_buffer[i])

C20_ColourWrittenIffDepthLowered ==
    call.op = "triangle_with_depth_buffer" =>
        /\ DOMAIN pixels = DOMAIN old_pixels
        /\ DOMAIN depth_buffer = DOMAIN old_depth_buffer
        /\ \A i \in DOMAIN depth_buffer :
             DepthLowered(i) \/ depth_buffer[i] = old_depth_buffer[i]
        /\ \A p \in CanvasPoints :
             IF Idx(p) \in DOMAIN depth_buffer /\ DepthLowered(Idx(p))
             THEN pixels[Idx(p)] = Pack(call.color) /\ TriCovers(call, p)
             ELSE pixels[Idx(p)] = old_pixels[Idx(p)]

\* The second triangle of a frame, in another colour than the first: it is
\* nearer at one pixel, which it recolours, and it covers another pixel where
\* it is not nearer, which keeps the first colour and its depth.
C20_Witness ==
    /\ FrameDrawn
    /\ Len(submitted) = 2
    /\ submitted[1].color # call.color
    /\ \E p \in CanvasPoints :
         /\ DepthLowered(Idx(p))
         /\ old_pixels[Idx(p)] = submitted[1].color
         /\ pixels[Idx(p)] = call.color
    /\ \E p \in CanvasPoints :
         /\ TriCovers(call, p)
         /\ ~DepthLowered(Idx(p))
         /\ old_depth_buffer[Idx(p)][2] # 0
         /\ pixels[Idx(p)] = submitted[1].color

====
